---------------------------- MODULE Spec2Model ----------------------------
(***************************************************************************)
(* A state-machine model of the budget dashboard: the credential resolver  *)
(* Config.get_app_keys (src/credenciais.py) and the retrying fetch         *)
(* listar_orcamentos (src/teste.py).                                       *)
(*                                                                         *)
(* Python strings are modelled as tuples of one-character strings, so that *)
(* upper(), zfill(), str() and the substring test are computed and not     *)
(* assumed.  A JSON object / Python dict is a function whose DOMAIN is the *)
(* set of keys present.  An Optional value is None or Some(v).             *)
(***************************************************************************)
EXTENDS Integers, Sequences, FiniteSets, TLC

VARIABLES
    environ,      \* os.environ: variable name -> value, for the names set
    pc,           \* position of the script: "idle", "sleep", "post", "done"
    args,         \* the arguments of the running listar_orcamentos call
    app_keys,     \* local app_keys: what Config.get_app_keys returned
    payload,      \* local payload (None before it is built)
    tentativa,    \* loop variable of "for tentativa in range(1, tentativas+1)"
    respostas,    \* the answers received so far; local response is the last
    eventos,      \* the time.sleep and requests.post calls made, in order
    erros,        \* the st.error calls made, in order
    avisos,       \* the st.warning calls made, in order (attempt numbers)
    retorno       \* the value returned by listar_orcamentos (None before)

vars == <<environ, pc, args, app_keys, payload, tentativa, respostas,
          eventos, erros, avisos, retorno>>

---------------------------------------------------------------------------
(* Bounds of the model *)

MaxTentativas == 3

---------------------------------------------------------------------------
(* Optional values and Python truthiness *)

None == [some |-> FALSE]

Some(x) == [some |-> TRUE, v |-> x]

\* "not x" for an Optional[str] or Optional[object]: None and "" are falsy
Not(x) == ~x.some \/ x.v = <<>>

---------------------------------------------------------------------------
(* str.upper, str(int), str.zfill, "sub in s" *)

Minusculas == <<"a","b","c","d","e","f","g","h","i","j","k","l","m",
                "n","o","p","q","r","s","t","u","v","w","x","y","z">>

Maiusculas == <<"A","B","C","D","E","F","G","H","I","J","K","L","M",
                "N","O","P","Q","R","S","T","U","V","W","X","Y","Z">>

UpperChar(c) ==
    IF \E i \in 1..Len(Minusculas) : Minusculas[i] = c
    THEN Maiusculas[CHOOSE i \in 1..Len(Minusculas) : Minusculas[i] = c]
    ELSE c

UpperNoOp(s) == s

Upper(s) == [i \in 1..Len(s) |-> UpperChar(s[i])]

Digitos == <<"0","1","2","3","4","5","6","7","8","9">>

RECURSIVE Str(_)
Str(n) ==
    IF n < 0 THEN <<"-">> \o Str(-n)
    ELSE IF n < 10 THEN <<Digitos[n + 1]>>
    ELSE Str(n \div 10) \o <<Digitos[(n % 10) + 1]>>

RECURSIVE PadLeft(_, _)
PadLeft(s, w) == IF Len(s) >= w THEN s ELSE PadLeft(<<"0">> \o s, w)

ZfillNoPad(s, w) == s

\* str.zfill(w): zeros go after a leading sign
Zfill(s, w) ==
    IF s # <<>> /\ s[1] \in {"+", "-"}
    THEN <<s[1]>> \o PadLeft(Tail(s), w - 1)
    ELSE PadLeft(s, w)

\* "sub in s" for strings
Contains(sub, s) ==
    \E i \in 0..(Len(s) - Len(sub)) : SubSeq(s, i + 1, i + Len(sub)) = sub

---------------------------------------------------------------------------
(* src/credenciais.py *)

SufixoKey == <<"_","A","P","P","_","K","E","Y">>

SufixoSecret == <<"_","A","P","P","_","S","E","C","R","E","T">>

\* os.getenv(name)
Getenv(env, name) == IF name \in DOMAIN env THEN Some(env[name]) ELSE None

\* AppKeysConfig(app_key=..., app_secret=...): Field(..., min_length=1) on
\* both; ok = FALSE stands for the ValidationError
AppKeysConfig(app_key, app_secret) ==
    IF Len(app_key) >= 1 /\ Len(app_secret) >= 1
    THEN [ok |-> TRUE, v |-> [app_key |-> app_key, app_secret |-> app_secret]]
    ELSE [ok |-> FALSE]

GetAppKeysKeyOnly(env, localidade, servico) ==
    LET loc == Upper(localidade)
        svc == Upper(servico)
        app_key == Getenv(env, loc \o <<"_">> \o svc \o SufixoKey)
        app_secret == Getenv(env, loc \o <<"_">> \o svc \o SufixoSecret)
    IN  IF Not(app_key)
        THEN None
        ELSE Some([app_key |-> app_key.v,
                   app_secret |-> IF app_secret.some THEN app_secret.v ELSE <<>>])

\* Config.get_app_keys(localidade, servico)
GetAppKeys(env, localidade, servico) ==
    LET loc == Upper(localidade)
        svc == Upper(servico)
        app_key_var == loc \o <<"_">> \o svc \o SufixoKey
        app_secret_var == loc \o <<"_">> \o svc \o SufixoSecret
        app_key == Getenv(env, app_key_var)
        app_secret == Getenv(env, app_secret_var)
    IN  IF Not(app_key) \/ Not(app_secret)
        THEN None                                   \* logging.warning
        ELSE LET r == AppKeysConfig(app_key.v, app_secret.v)
             IN  IF r.ok THEN Some(r.v)
                 ELSE None                          \* except ValidationError


---------------------------------------------------------------------------
(* src/teste.py: listar_orcamentos *)

\* dados.get(chave, padrao)
Get(dados, chave, padrao) ==
    IF chave \in DOMAIN dados THEN dados[chave] ELSE padrao

Cod8020 == <<"8","0","2","0">>

IsBusyAnyFault(dados) == "faultcode" \in DOMAIN dados

IsBusyExact(dados) ==
    "faultcode" \in DOMAIN dados /\ dados["faultcode"] = Cod8020

\* "faultcode" in dados and "8020" in dados["faultcode"]
IsBusy(dados) ==
    "faultcode" \in DOMAIN dados /\ Contains(Cod8020, dados["faultcode"])

StatusOk2xx(resp) == resp.status_code >= 200 /\ resp.status_code < 300

\* response.status_code == 200
StatusOk(resp) == resp.status_code = 200

BackoffBetween(t) == 4 * (t - 1)

\* the argument of time.sleep(4 * tentativa)
Backoff(t) == 4 * t

TemProximaShort(t, n) == t + 1 < n

TemProximaLong(t, n) == t <= n

\* "continue": range(1, tentativas + 1) has a value after t
TemProxima(t, n) == t < n

NaN == <<"N","a","N">>

\* json_normalize(lista) on flat entries: one row per entry, one column per
\* key found in any entry, NaN where an entry lacks the key
JsonNormalize(lista) ==
    LET cols == UNION {DOMAIN lista[i] : i \in 1..Len(lista)}
    IN  [i \in 1..Len(lista) |->
            [c \in cols |-> IF c \in DOMAIN lista[i] THEN lista[i][c] ELSE NaN]]

\* the four column assignments df["ano"] = ano ... df["servico"] = servico
Tags(a) ==
    [ano |-> a.ano, mes |-> Zfill(Str(a.mes), 2),
     localidade |-> a.localidade, servico |-> a.servico]

\* the DataFrame returned for a non-empty lista; an assignment to an
\* existing column overwrites it
Tabela(lista, a) ==
    LET df == JsonNormalize(lista)
    IN  [i \in 1..Len(df) |-> Tags(a) @@ df[i]]

\* pd.DataFrame()
DataFrameVazio == <<>>

Payload(a, k) ==
    [call |-> "ListarOrcamentos",
     param |-> <<[nAno |-> a.ano, nMes |-> a.mes]>>,
     app_key |-> k.app_key, app_secret |-> k.app_secret]

---------------------------------------------------------------------------
(* The inputs: environment, arguments and server answers *)

Valores == {<<>>, <<"k">>, <<"s","9">>}

VarKey == <<"P","I","_","C">> \o SufixoKey

VarSecret == <<"P","I","_","C">> \o SufixoSecret

\* a variable whose name differs from VarKey by letter case only
VarKeyMinuscula == <<"p","i","_","c">> \o SufixoKey

Ambientes ==
    {k @@ s @@ d :
        k \in {<<>>} \cup {(VarKey :> x) : x \in Valores},
        s \in {<<>>} \cup {(VarSecret :> x) : x \in Valores},
        d \in {<<>>, (VarKeyMinuscula :> <<"z">>)}}

Localidades == {<<"p","i">>, <<"P","i">>, <<"P","I">>, <<"x">>}

Servicos == {<<"c">>, <<"C">>}

\* the sidebar offers range(2018, ano_atual + 1) and range(1, 13); the model
\* takes two of the years and the months 1, 9, 10, 12 (one and two digits)
Anos == {2018, 2024}

Meses == {1, 9, 10, 12}

E1 == [cDesCateg |-> <<"A">>, nValorPrevisto |-> 10, nValorRealizado |-> 5]

\* an entry that itself carries a column named like a tag
E2 == [cDesCateg |-> <<"B">>, nValorPrevisto |-> 0, nValorRealizado |-> 7,
       mes |-> <<"5">>]

Corpos ==
    { <<>>,
      [ListaOrcamentos |-> <<>>],
      [ListaOrcamentos |-> <<E1>>],
      [ListaOrcamentos |-> <<E1, E2>>],
      [faultcode |-> <<"C","-","8","0","2","0">>],
      [faultcode |-> <<"8","0","2","0">>, ListaOrcamentos |-> <<E1>>],
      [faultcode |-> <<"C","-","5","1","1","3">>],
      [faultcode |-> <<"8","-","0","2","0">>, ListaOrcamentos |-> <<E1>>] }

Respostas ==
    {[status_code |-> 200, dados |-> d] : d \in Corpos}
    \cup {[status_code |-> s, dados |-> <<>>] : s \in {201, 404, 500}}

---------------------------------------------------------------------------
(* The state machine *)

Init ==
    /\ environ \in Ambientes
    /\ pc = "idle"
    /\ args = None
    /\ app_keys = None
    /\ payload = None
    /\ tentativa = 0
    /\ respostas = <<>>
    /\ eventos = <<>>
    /\ erros = <<>>
    /\ avisos = <<>>
    /\ retorno = None

\* Same as Buscar, except that missing credentials give no st.error
BuscarSilencioso(l, s, a, m, n) ==
    /\ pc = "idle"
    /\ LET ar == [localidade |-> l, servico |-> s, ano |-> a, mes |-> m,
                  tentativas |-> n]
           k == GetAppKeys(environ, l, s)
       IN  /\ args' = Some(ar)
           /\ app_keys' = k
           /\ IF ~k.some
              THEN /\ retorno' = Some(DataFrameVazio)
                   /\ pc' = "done"
                   /\ UNCHANGED <<payload, tentativa, erros>>
              ELSE /\ payload' = Some(Payload(ar, k.v))
                   /\ IF 1 <= n
                      THEN /\ tentativa' = 1
                           /\ pc' = "sleep"
                           /\ UNCHANGED <<erros, retorno>>
                      ELSE /\ erros' = Append(erros, "limite")
                           /\ retorno' = Some(DataFrameVazio)
                           /\ pc' = "done"
                           /\ UNCHANGED tentativa
    /\ UNCHANGED <<environ, respostas, eventos, avisos>>

\* The "Buscar dados" button calls listar_orcamentos(l, s, a, m, n): lines
\* 21-32 and the entry into the loop.  An empty range goes straight to the
\* code after the loop.
Buscar(l, s, a, m, n) ==
    /\ pc = "idle"
    /\ LET ar == [localidade |-> l, servico |-> s, ano |-> a, mes |-> m,
                  tentativas |-> n]
           k == GetAppKeys(environ, l, s)
       IN  /\ args' = Some(ar)
           /\ app_keys' = k
           /\ IF ~k.some                                \* if not app_keys
              THEN /\ erros' = Append(erros, "credenciais")
                   /\ retorno' = Some(DataFrameVazio)
                   /\ pc' = "done"
                   /\ UNCHANGED <<payload, tentativa>>
              ELSE /\ payload' = Some(Payload(ar, k.v))
                   /\ IF 1 <= n
                      THEN /\ tentativa' = 1
                           /\ pc' = "sleep"
                           /\ UNCHANGED <<erros, retorno>>
                      ELSE /\ erros' = Append(erros, "limite")
                           /\ retorno' = Some(DataFrameVazio)
                           /\ pc' = "done"
                           /\ UNCHANGED tentativa
    /\ UNCHANGED <<environ, respostas, eventos, avisos>>

\* time.sleep(4 * tentativa)
Dormir ==
    /\ pc = "sleep"
    /\ eventos' = Append(eventos, [tipo |-> "sleep", seg |-> Backoff(tentativa)])
    /\ pc' = "post"
    /\ UNCHANGED <<environ, args, app_keys, payload, tentativa, respostas,
                   erros, avisos, retorno>>

\* requests.post(url, json=payload) answered by resp, and lines 38-63: the
\* handling of the answer up to the next sleep or the return
Postar(resp) ==
    /\ pc = "post"
    /\ eventos' = Append(eventos, [tipo |-> "post", json |-> payload.v])
    /\ respostas' = Append(respostas, resp)
    /\ IF StatusOk(resp)
       THEN IF IsBusy(resp.dados)
            THEN /\ avisos' = Append(avisos, tentativa)
                 /\ IF TemProxima(tentativa, args.v.tentativas)
                    THEN /\ tentativa' = tentativa + 1
                         /\ pc' = "sleep"
                         /\ UNCHANGED <<erros, retorno>>
                    ELSE /\ erros' = Append(erros, "limite")
                         /\ retorno' = Some(DataFrameVazio)
                         /\ pc' = "done"
                         /\ UNCHANGED tentativa
            ELSE LET lista == Get(resp.dados, "ListaOrcamentos", <<>>)
                 IN  /\ retorno' = IF lista # <<>>
                                   THEN Some(Tabela(lista, args.v))
                                   ELSE Some(DataFrameVazio)
                     /\ pc' = "done"
                     /\ UNCHANGED <<tentativa, erros, avisos>>
       ELSE /\ erros' = Append(erros, "http")
            /\ retorno' = Some(DataFrameVazio)
            /\ pc' = "done"
            /\ UNCHANGED <<tentativa, avisos>>
    /\ UNCHANGED <<environ, args, app_keys, payload>>

Next ==
    \/ \E l \in Localidades, s \in Servicos, a \in Anos, m \in Meses,
          n \in 0..MaxTentativas : Buscar(l, s, a, m, n)
    \/ Dormir
    \/ \E resp \in Respostas : Postar(resp)

Spec == Init /\ [][Next]_vars

---------------------------------------------------------------------------
(* Vocabulary of the properties, written from the statements themselves    *)
(* and not from the operators above                                        *)

Chamado == pc # "idle"

ComCredenciais == Chamado /\ app_keys.some

N == args.v.tentativas

Posts == SelectSeq(eventos, LAMBDA e : e.tipo = "post")

Sleeps == SelectSeq(eventos, LAMBDA e : e.tipo = "sleep")

\* number of POSTs among the first j events
PostsAte(j) == Len(SelectSeq(SubSeq(eventos, 1, j), LAMBDA e : e.tipo = "post"))

RECURSIVE SleepAte(_)
\* seconds slept in the first j events
SleepAte(j) ==
    IF j = 0 THEN 0
    ELSE SleepAte(j - 1) + (IF eventos[j].tipo = "sleep" THEN eventos[j].seg ELSE 0)

\* HTTP 200 whose body has a faultcode with the characters 8,0,2,0 in a row
RespOcupado(r) ==
    /\ r.status_code = 200
    /\ "faultcode" \in DOMAIN r.dados
    /\ \E i \in 1..Len(r.dados.faultcode) :
          /\ i + 3 <= Len(r.dados.faultcode)
          /\ r.dados.faultcode[i] = "8"
          /\ r.dados.faultcode[i + 1] = "0"
          /\ r.dados.faultcode[i + 2] = "2"
          /\ r.dados.faultcode[i + 3] = "0"

\* the result list of a body, empty when the key is missing
ListaDe(r) ==
    IF "ListaOrcamentos" \in DOMAIN r.dados THEN r.dados.ListaOrcamentos ELSE <<>>

\* HTTP 200, no busy fault, non-empty result list
RespComLista(r) ==
    r.status_code = 200 /\ ~RespOcupado(r) /\ ListaDe(r) # <<>>

\* HTTP 200, no busy fault, empty or missing result list
RespSemLista(r) ==
    r.status_code = 200 /\ ~RespOcupado(r) /\ ListaDe(r) = <<>>

OcupadoAte(k) ==
    k <= Len(respostas) /\ \A i \in 1..k : RespOcupado(respostas[i])

\* a further attempt follows the i-th answer
Continuou(i) == i < Len(respostas) \/ pc # "done"

TabelaVazia == [some |-> TRUE, v |-> <<>>]

\* the environment variable names of each (locality, service), spelled out
NomeKey(l, s) ==
    IF Len(l) = 2 THEN <<"P","I","_","C","_","A","P","P","_","K","E","Y">>
    ELSE <<"X","_","C","_","A","P","P","_","K","E","Y">>

NomeSecret(l, s) ==
    IF Len(l) = 2
    THEN <<"P","I","_","C","_","A","P","P","_","S","E","C","R","E","T">>
    ELSE <<"X","_","C","_","A","P","P","_","S","E","C","R","E","T">>

Definida(nome) == nome \in DOMAIN environ /\ environ[nome] # <<>>

\* the month as a zero-padded two-digit string
MesDoisDigitos ==
    [m \in 1..12 |->
        CASE m = 1 -> <<"0","1">> [] m = 2 -> <<"0","2">> [] m = 3 -> <<"0","3">>
          [] m = 4 -> <<"0","4">> [] m = 5 -> <<"0","5">> [] m = 6 -> <<"0","6">>
          [] m = 7 -> <<"0","7">> [] m = 8 -> <<"0","8">> [] m = 9 -> <<"0","9">>
          [] m = 10 -> <<"1","0">> [] m = 11 -> <<"1","1">>
          [] m = 12 -> <<"1","2">>]

---------------------------------------------------------------------------
(* Properties *)

\* C1: with credentials present, after busy answers on attempts 1..k, k < N,
\* the fetch goes on to attempt k+1 with no error and nothing returned; and
\* when attempt k+1 is then answered 200 with a non-empty list, the fetch
\* returns a table with one row per entry of the list, after exactly k+1
\* POSTs and with no error signalled.
C1_BusyThenSuccess ==
    ComCredenciais =>
        LET k == Len(respostas)
        IN  /\ (k < N /\ OcupadoAte(k)) =>
                  /\ pc \in {"sleep", "post"}
                  /\ tentativa = k + 1
                  /\ retorno = None
                  /\ erros = <<>>
            /\ (k >= 1 /\ OcupadoAte(k - 1) /\ RespComLista(respostas[k])) =>
                  /\ pc = "done"
                  /\ retorno.some
                  /\ Len(retorno.v) = Len(ListaDe(respostas[k]))
                  /\ Len(Posts) = k
                  /\ erros = <<>>

\* the documented case: busy, busy, one entry, with N = 3
C1_Witness ==
    /\ ComCredenciais /\ N = 3 /\ Len(respostas) = 3
    /\ OcupadoAte(2) /\ RespComLista(respostas[3])
    /\ Len(ListaDe(respostas[3])) = 1
    /\ pc = "done" /\ Len(retorno.v) = 1 /\ Len(Posts) = 3

\* C2: with credentials present, when each of the N attempts is answered
\* with a busy fault, the fetch ends after exactly N POSTs, has signalled
\* the "attempts exceeded" error exactly once (and no other error) and
\* returns an empty table.
C2_AllBusyExhausts ==
    (ComCredenciais /\ Len(respostas) = N /\ OcupadoAte(N)) =>
        /\ pc = "done"
        /\ Len(Posts) = N
        /\ erros = <<"limite">>
        /\ retorno = TabelaVazia

C2_Witness ==
    /\ ComCredenciais /\ N = 3 /\ Len(respostas) = 3 /\ OcupadoAte(3)
    /\ pc = "done" /\ erros = <<"limite">> /\ avisos = <<1, 2, 3>>

\* C3: an answer whose status is not 200 is the last one of the fetch: the
\* fetch has ended, an error is signalled, the table returned is empty, and
\* the POST that got the answer is the last event (no POST, no sleep after
\* it), whatever the number of attempts left.
C3_Non200Terminal ==
    Chamado =>
        \A i \in 1..Len(respostas) :
            respostas[i].status_code # 200 =>
                /\ i = Len(respostas)
                /\ pc = "done"
                /\ erros = <<"http">>
                /\ retorno = TabelaVazia
                /\ Len(Posts) = i
                /\ eventos[Len(eventos)].tipo = "post"
                /\ Len(eventos) = 2 * i

\* a 404 on the second attempt of three
C3_Witness ==
    /\ Chamado /\ N = 3 /\ Len(respostas) = 2
    /\ respostas[2].status_code = 404
    /\ pc = "done" /\ Len(Posts) = 2 /\ retorno = TabelaVazia

\* C4: a 200 answer with no busy fault and an empty or missing result list
\* ends the fetch at that attempt: empty table, no error, no other attempt.
C4_EmptyListTerminal ==
    Chamado =>
        \A i \in 1..Len(respostas) :
            RespSemLista(respostas[i]) =>
                /\ i = Len(respostas)
                /\ pc = "done"
                /\ retorno = TabelaVazia
                /\ erros = <<>>
                /\ Len(Posts) = i

\* an empty list on the first of three attempts
C4_Witness ==
    /\ Chamado /\ N = 3 /\ Len(respostas) = 1
    /\ "ListaOrcamentos" \in DOMAIN respostas[1].dados
    /\ RespSemLista(respostas[1])
    /\ pc = "done" /\ retorno = TabelaVazia /\ erros = <<>>

\* C5: when the resolver returned the absence value, the fetch has ended
\* with one error signalled and an empty result, and made no sleep and no
\* POST.
C5_NoCredentials ==
    (Chamado /\ app_keys = None) =>
        /\ pc = "done"
        /\ erros = <<"credenciais">>
        /\ retorno = TabelaVazia
        /\ eventos = <<>>

C5_Witness ==
    /\ Chamado /\ app_keys = None /\ N = 3
    /\ pc = "done" /\ retorno = TabelaVazia

\* C6: the i-th POST comes right after a sleep of 4*i seconds, the i-th
\* sleep of the fetch; so at least 4 seconds of sleep precede any POST and
\* 4*(1+...+i) = 2*i*(i+1) seconds precede the i-th.
C6_SleepBeforeEveryPost ==
    \A j \in 1..Len(eventos) :
        eventos[j].tipo = "post" =>
            LET i == PostsAte(j)
            IN  /\ j > 1
                /\ eventos[j - 1].tipo = "sleep"
                /\ eventos[j - 1].seg = 4 * i
                /\ Len(SelectSeq(SubSeq(eventos, 1, j),
                                 LAMBDA e : e.tipo = "sleep")) = i
                /\ SleepAte(j) >= 4
                /\ SleepAte(j) = 2 * i * (i + 1)

\* the third POST, after 4 + 8 + 12 seconds
C6_Witness ==
    /\ Len(Posts) = 3
    /\ eventos[Len(eventos)].tipo = "post"
    /\ SleepAte(Len(eventos)) = 24

\* C7: a further attempt follows an answer exactly when the answer is a 200
\* with a faultcode containing "8020" and attempts remain; every other
\* answer ends the fetch at that attempt.
C7_OnlyBusyRetried ==
    ComCredenciais =>
        \A i \in 1..Len(respostas) :
            Continuou(i) <=> (RespOcupado(respostas[i]) /\ i < N)

\* retried once on a busy fault, then ended by a fault that is not busy
\* although an attempt was left
C7_Witness ==
    /\ ComCredenciais /\ N = 3 /\ Len(respostas) = 2
    /\ RespOcupado(respostas[1])
    /\ respostas[2].status_code = 200
    /\ "faultcode" \in DOMAIN respostas[2].dados
    /\ ~RespOcupado(respostas[2])
    /\ pc = "done"

\* C8: every row of a non-empty result carries the four tag columns, equal
\* to the query: ano the year, mes the month as a zero-padded two-digit
\* string, localidade and servico as passed.
C8_TagsMatchQuery ==
    (Chamado /\ retorno.some) =>
        \A i \in 1..Len(retorno.v) :
            LET r == retorno.v[i]
            IN  /\ {"ano", "mes", "localidade", "servico"} \subseteq DOMAIN r
                /\ r.ano = args.v.ano
                /\ r.mes = MesDoisDigitos[args.v.mes]
                /\ r.localidade = args.v.localidade
                /\ r.servico = args.v.servico

\* two rows, one from an entry with its own "mes" key, obtained on the
\* second attempt for a lower-case locality and a one-digit month
C8_Witness ==
    /\ Chamado /\ retorno.some /\ Len(retorno.v) = 2
    /\ Len(respostas) = 2
    /\ "mes" \in DOMAIN respostas[2].dados.ListaOrcamentos[2]
    /\ args.v.mes = 9 /\ retorno.v[2].mes = <<"0","9">>
    /\ args.v.localidade = <<"p","i">> /\ retorno.v[1].localidade = <<"p","i">>

\* C9: when the key variable or the secret variable of the (locality,
\* service) asked for is unset or empty, get_app_keys returned None to its
\* caller.
C9_MissingGivesNone ==
    Chamado =>
        LET l == args.v.localidade
            s == args.v.servico
        IN  (~Definida(NomeKey(l, s)) \/ ~Definida(NomeSecret(l, s)))
                => app_keys = None

\* the key is set and the secret is not
C9_Witness ==
    /\ Chamado
    /\ Definida(NomeKey(args.v.localidade, args.v.servico))
    /\ NomeSecret(args.v.localidade, args.v.servico) \notin DOMAIN environ
    /\ app_keys = None

\* C10: when both variables hold non-empty values, get_app_keys returned a
\* record with exactly those values, whatever the letter case of the
\* locality and service arguments.
C10_ExactValuesAnyCase ==
    Chamado =>
        LET l == args.v.localidade
            s == args.v.servico
        IN  (Definida(NomeKey(l, s)) /\ Definida(NomeSecret(l, s))) =>
                app_keys = [some |-> TRUE,
                            v |-> [app_key |-> environ[NomeKey(l, s)],
                                   app_secret |-> environ[NomeSecret(l, s)]]]

\* mixed-case arguments, different key and secret
C10_Witness ==
    /\ Chamado
    /\ args.v.localidade = <<"P","i">> /\ args.v.servico = <<"c">>
    /\ app_keys.some
    /\ app_keys.v.app_key = <<"s","9">> /\ app_keys.v.app_secret = <<"k">>

============================================================================
